---------------------------- MODULE Spec2Model ----------------------------
(***************************************************************************)
(* Vehicle checkout log dashboard (src/app.py): the two cached loaders,    *)
(* the oil-change status computation, the checkout-history filter, the     *)
(* program-trip export and the render cycle that ties them together.       *)
(*                                                                         *)
(* Data representation                                                     *)
(*   - a nullable cell is a sequence of length <= 1: <<>> is NaN/NaT/None  *)
(*     and <<v>> is the value v;                                           *)
(*   - a text is a sequence of one-character strings, so that strip,       *)
(*     lower and substring search are computed and not assumed;            *)
(*   - a DataFrame is [columns |-> sequence of names, rows |-> sequence    *)
(*     of records]; pd.DataFrame() is the frame with no columns, no rows;  *)
(*   - the outcome of a call that may raise is [exc |-> name, ret |-> <<>>]*)
(*     or [exc |-> "none", ret |-> <<value>>].                             *)
(***************************************************************************)
EXTENDS Integers, Sequences, FiniteSets, TLC

VARIABLES
    clock,           \* wall-clock time in seconds (st.cache_data's time base)
    cache,           \* st.cache_data entries of load_data and load_maintenance
    feed,            \* what the last fetch of each sheet delivered
    pc,              \* position of the script run
    df,              \* module-level df               (app.py line 106)
    maintenance_df,  \* module-level maintenance_df   (app.py line 107)
    errors,          \* st.error / st.warning reports of this run
    widgets,         \* widgets the last script run put on the page
    oil_status,      \* outcomes of get_oil_change_status, one per vehicle card
    sel,             \* widget values: the four selectboxes and the export dates
    filtered_df,     \* rows of filtered_df          (app.py lines 198-216)
    uc_trips,        \* rows of uc_trips             (app.py lines 235-247)
    args             \* arguments of the call under study (pure-function specs)

vars == <<clock, cache, feed, pc, df, maintenance_df, errors, widgets,
          oil_status, sel, filtered_df, uc_trips, args>>

-----------------------------------------------------------------------------
(* Nullable cells and outcomes *)

Null == <<>>

Some(v) == <<v>>

isna(c) == c = Null

Raise(e) == [exc |-> e, ret |-> <<>>]

Return(v) == [exc |-> "none", ret |-> <<v>>]

Range(s) == {s[i] : i \in 1..Len(s)}

SeqsUpTo(S, n) == UNION {[1..k -> S] : k \in 0..n}

-----------------------------------------------------------------------------
(* Text: str.lower, str.strip, substring search *)

UpperLetters == <<"A","B","C","D","E","F","G","H","I","J","K","L","M",
                  "N","O","P","Q","R","S","T","U","V","W","X","Y","Z">>

LowerLetters == <<"a","b","c","d","e","f","g","h","i","j","k","l","m",
                  "n","o","p","q","r","s","t","u","v","w","x","y","z">>

Whitespace == {" ", "\t", "\n"}

LowerChar(c) ==
    IF \E i \in 1..Len(UpperLetters) : UpperLetters[i] = c
    THEN LowerLetters[CHOOSE i \in 1..Len(UpperLetters) : UpperLetters[i] = c]
    ELSE c

str_lower(t) == [i \in 1..Len(t) |-> LowerChar(t[i])]

RECURSIVE lstrip(_)
lstrip(t) ==
    IF t # <<>> /\ Head(t) \in Whitespace THEN lstrip(Tail(t)) ELSE t

RECURSIVE rstrip(_)
rstrip(t) ==
    IF t # <<>> /\ t[Len(t)] \in Whitespace
    THEN rstrip(SubSeq(t, 1, Len(t) - 1))
    ELSE t

str_strip(t) == rstrip(lstrip(t))

str_contains(t, pat) ==
    \E i \in 1..(Len(t) - Len(pat) + 1) : SubSeq(t, i, i + Len(pat) - 1) = pat

-----------------------------------------------------------------------------
(* DataFrame *)

EmptyDataFrame == [columns |-> <<>>, rows |-> <<>>]

DataFrame(cols, rows) == [columns |-> cols, rows |-> rows]

\* DataFrame.empty: true when any axis has length 0
empty(frame) == Len(frame.columns) = 0 \/ Len(frame.rows) = 0

HasColumn(frame, c) == \E i \in 1..Len(frame.columns) : frame.columns[i] = c

\* descending order of a nullable numeric key, nulls last (na_position='last')
Before(a, b) == a # Null /\ (b = Null \/ a[1] > b[1])

RECURSIVE Insert(_, _, _)
Insert(x, s, by) ==
    IF s = <<>> THEN <<x>>
    ELSE IF Before(x[by], Head(s)[by]) THEN <<x>> \o s
    ELSE <<Head(s)>> \o Insert(x, Tail(s), by)

RECURSIVE sort_values(_, _)
sort_values(rows, by) ==
    IF rows = <<>> THEN <<>>
    ELSE Insert(rows[Len(rows)], sort_values(SubSeq(rows, 1, Len(rows) - 1), by), by)

-----------------------------------------------------------------------------
(* Oil-change status: app.py lines 16-19 and 56-101 *)

WARNING_THRESHOLD == 4000

OVERDUE_THRESHOLD == 5000

OilText == <<"o","i","l">>

\* Series.str raises on a column that holds no string at all: read_csv types a
\* column whose cells are all blank as float64.  A column without rows is object.
StrAccessorFails(rows, col) ==
    rows # <<>> /\ \A i \in 1..Len(rows) : isna(rows[i][col])

\* .str.lower().str.contains('oil', na=False) on one cell
ContainsOil(cell) == ~isna(cell) /\ str_contains(str_lower(cell[1]), OilText)

\* NaN arithmetic and comparison: a NaN operand gives NaN, NaN >= n is False
Minus(a, b) == IF isna(a) \/ isna(b) THEN Null ELSE Some(a[1] - b[1])

GE(a, n) == ~isna(a) /\ a[1] >= n

OilResult(status, color, text, miles_since, last_mileage) ==
    [status |-> status, color |-> color,
     message |-> [miles |-> miles_since, text |-> text],
     miles_since |-> miles_since, last_mileage |-> last_mileage]

\* the three branches format int(miles_since): int(NaN) raises ValueError
Classified(status, color, text, miles_since, last_mileage) ==
    IF isna(miles_since) THEN Raise("ValueError")
    ELSE Return(OilResult(status, color, text, miles_since, last_mileage))

\* the most recent service by date instead of by odometer reading
SortFirstRowByDate(vehicle_oil) == sort_values(vehicle_oil, "date")[1]

\* line 74: sort_values('mileage', ascending=False).iloc[0]; only the key of
\* the first row is read, and it is the same however ties are arranged
SortFirstRow(vehicle_oil) == sort_values(vehicle_oil, "mileage")[1]

OilMatches(vehicle, rows) ==
    LET Keep(r) == r.vehicle = vehicle /\ ContainsOil(r.service_type)
    IN  SelectSeq(rows, Keep)

Classify(miles_since, last_mileage) ==
    IF GE(miles_since, OVERDUE_THRESHOLD)
    THEN Classified("overdue", "red", "miles since oil change - OVERDUE",
                    miles_since, last_mileage)
    ELSE IF GE(miles_since, WARNING_THRESHOLD)
    THEN Classified("warning", "yellow", "miles since oil change - Due soon",
                    miles_since, last_mileage)
    ELSE Classified("good", "green", "miles since oil change",
                    miles_since, last_mileage)

get_oil_change_status(vehicle, current_mileage, mdf) ==
    IF ~HasColumn(mdf, "vehicle") \/ ~HasColumn(mdf, "service_type")
    THEN Raise("KeyError")
    ELSE IF StrAccessorFails(mdf.rows, "service_type")
    THEN Raise("AttributeError")
    ELSE LET vehicle_oil == OilMatches(vehicle, mdf.rows)
         IN  IF vehicle_oil = <<>> \/ isna(current_mileage)
             THEN Return(OilResult("unknown", "white", "No oil change on record",
                                   Null, Null))
             ELSE LET last_oil_change == SortFirstRow(vehicle_oil)
                      last_mileage == last_oil_change.mileage
                      miles_since == Minus(current_mileage, last_mileage)
                  IN  Classify(miles_since, last_mileage)

-----------------------------------------------------------------------------
(* Loaders: app.py lines 21-54 *)

\* A cell of a time or number column as read_csv delivers it: blank, a
\* well-formed literal of value n, or other text.
Blank == [k |-> "blank", n |-> 0]

Lit(n) == [k |-> "ok", n |-> n]

Junk == [k |-> "bad", n |-> 0]

\* pd.to_datetime / pd.to_numeric with errors='coerce'
coerce(cell) == IF cell.k = "ok" THEN Some(cell.n) ELSE Null

\* Series.fillna('') on a text column
fillna(cell) == IF isna(cell) THEN <<>> ELSE cell[1]

CHECKOUT_COLUMNS ==
    <<"checkout_time", "vehicle", "first_name", "last_name", "mileage",
      "destination", "expected_back", "email", "submission_id", "uc_program">>

MAINTENANCE_COLUMNS == <<"vehicle", "date", "mileage", "service_type">>

UC_ALLOW_LIST ==
    { <<"y","e","s">>,
      <<"t","r","u","e">>,
      <<"u","c"," ","p","r","o","g","r","a","m"," ","t","r","i","p">>,
      <<"u","c"," ","p","r","o","g","r","a","m"," ","t","r","i","p","?">>,
      <<"c","h","e","c","k","e","d">>,
      <<"1">>,
      <<"x">> }

\* line 35: fillna('').astype(str).str.strip()
clean_uc_program(cell) == str_strip(fillna(cell))

\* a substring test in place of the membership test
is_uc_contains(uc_program) ==
    \E a \in UC_ALLOW_LIST : str_contains(str_lower(uc_program), a)

\* line 36: .str.lower().isin([...])
is_uc_of(uc_program) == str_lower(uc_program) \in UC_ALLOW_LIST

\* lines 31-32
staff_name_of(first_name, last_name) ==
    str_strip(fillna(first_name) \o <<" ">> \o fillna(last_name))

\* df.columns = [...]: the cells of a row are named by position
CheckoutRow(raw) ==
    LET uc_program == clean_uc_program(raw[10])
    IN  [checkout_time |-> coerce(raw[1]),
         vehicle       |-> raw[2],
         first_name    |-> raw[3],
         last_name     |-> raw[4],
         mileage       |-> coerce(raw[5]),
         destination   |-> raw[6],
         expected_back |-> raw[7],
         email         |-> raw[8],
         submission_id |-> raw[9],
         uc_program    |-> uc_program,
         staff_name    |-> staff_name_of(raw[3], raw[4]),
         is_uc         |-> is_uc_of(uc_program)]

MaintenanceRow(raw) ==
    [vehicle      |-> raw[1],
     date         |-> coerce(raw[2]),
     mileage      |-> coerce(raw[3]),
     service_type |-> raw[4]]

IndexPermutations(n) == {f \in [1..n -> 1..n] : \A i, j \in 1..n : i # j => f[i] # f[j]}

SortedDesc(rows, by) ==
    \A i, j \in 1..Len(rows) : i < j => ~Before(rows[j][by], rows[i][by])

\* DataFrame.sort_values(by, ascending=False) with the default, unstable,
\* quicksort: every descending arrangement of the rows, nulls last
sort_values_outcomes(rows, by) ==
    {p \in {[i \in 1..Len(rows) |-> rows[f[i]]] : f \in IndexPermutations(Len(rows))} :
        SortedDesc(p, by)}

\* the result of a loader: the exception that leaves it ("none" when it
\* returns), the table it returns and what it reported by st.error
Loaded(frame) == [exc |-> "none", value |-> frame, error |-> Null]

Failed(msg) == [exc |-> "none", value |-> EmptyDataFrame, error |-> Some(msg)]

\* what pd.read_csv raises when the sheet cannot be fetched or parsed
FetchExc == "URLError"

\* a handler that lets the exception through instead of reporting it
ExceptReraises(exc, msg) == [exc |-> exc, value |-> EmptyDataFrame, error |-> Null]

\* except Exception as e: st.error(...); return pd.DataFrame()
Except(exc, msg) == Failed(msg)

\* assigning n names to a frame of another width raises ValueError
SetColumnsFails(frame, names) == Len(frame.columns) # Len(names)

\* load_data's body; fetch is what pd.read_csv(CSV_URL) does: it raises
\* (ok = FALSE) or delivers a frame of positional rows
load_data(fetch) ==
    IF ~fetch.ok THEN {Except(FetchExc, "Error loading data")}
    ELSE IF SetColumnsFails(fetch.frame, CHECKOUT_COLUMNS)
    THEN {Except("ValueError", "Error loading data")}
    ELSE LET rows == [i \in 1..Len(fetch.frame.rows) |->
                         CheckoutRow(fetch.frame.rows[i])]
         IN  {Loaded(DataFrame(CHECKOUT_COLUMNS \o <<"staff_name", "is_uc">>, p)) :
                 p \in sort_values_outcomes(rows, "checkout_time")}

load_maintenance(fetch) ==
    IF ~fetch.ok THEN Except(FetchExc, "Error loading maintenance data")
    ELSE IF SetColumnsFails(fetch.frame, MAINTENANCE_COLUMNS)
    THEN Except("ValueError", "Error loading maintenance data")
    ELSE Loaded(DataFrame(MAINTENANCE_COLUMNS,
                          [i \in 1..Len(fetch.frame.rows) |->
                              MaintenanceRow(fetch.frame.rows[i])]))

-----------------------------------------------------------------------------
(* Checkout-history filter: app.py lines 197-216 *)

SECONDS_PER_DAY == 86400

WEEK_DAYS == 7

MONTH_DAYS == 30

LE(a, n) == ~isna(a) /\ a[1] <= n

\* lines 200-201; the selection "All" is the null selection
filter_vehicle(rows, s, now) ==
    LET Keep(r) == r.vehicle = s.vehicle_filter
    IN  IF ~isna(s.vehicle_filter) THEN SelectSeq(rows, Keep) ELSE rows

\* lines 203-204
filter_staff(rows, s, now) ==
    LET Keep(r) == Some(r.staff_name) = s.staff_filter
    IN  IF ~isna(s.staff_filter) THEN SelectSeq(rows, Keep) ELSE rows

\* a window that leaves out the row at the cutoff itself
filter_date_range_strict(rows, s, now) ==
    LET cutoff7 == now - WEEK_DAYS * SECONDS_PER_DAY
        cutoff30 == now - MONTH_DAYS * SECONDS_PER_DAY
        Keep7(r) == GE(r.checkout_time, cutoff7 + 1)
        Keep30(r) == GE(r.checkout_time, cutoff30 + 1)
    IN  IF s.date_range = "Last 7 days" THEN SelectSeq(rows, Keep7)
        ELSE IF s.date_range = "Last 30 days" THEN SelectSeq(rows, Keep30)
        ELSE rows

\* lines 206-211; a comparison with NaT is False
filter_date_range(rows, s, now) ==
    LET cutoff7 == now - WEEK_DAYS * SECONDS_PER_DAY
        cutoff30 == now - MONTH_DAYS * SECONDS_PER_DAY
        Keep7(r) == GE(r.checkout_time, cutoff7)
        Keep30(r) == GE(r.checkout_time, cutoff30)
    IN  IF s.date_range = "Last 7 days" THEN SelectSeq(rows, Keep7)
        ELSE IF s.date_range = "Last 30 days" THEN SelectSeq(rows, Keep30)
        ELSE rows

\* lines 213-216
filter_uc(rows, s, now) ==
    LET KeepUC(r) == r.is_uc = TRUE
        KeepNonUC(r) == r.is_uc = FALSE
    IN  IF s.uc_filter = "UC Program Only" THEN SelectSeq(rows, KeepUC)
        ELSE IF s.uc_filter = "Non-UC Only" THEN SelectSeq(rows, KeepNonUC)
        ELSE rows

apply_one(name, rows, s, now) ==
    CASE name = "vehicle" -> filter_vehicle(rows, s, now)
      [] name = "staff"   -> filter_staff(rows, s, now)
      [] name = "date"    -> filter_date_range(rows, s, now)
      [] name = "uc"      -> filter_uc(rows, s, now)

RECURSIVE apply_in_order(_, _, _, _)
apply_in_order(order, rows, s, now) ==
    IF order = <<>> THEN rows
    ELSE apply_in_order(Tail(order), apply_one(Head(order), rows, s, now), s, now)

\* the order of the script
CODE_ORDER == <<"vehicle", "staff", "date", "uc">>

apply_filters(rows, s, now) == apply_in_order(CODE_ORDER, rows, s, now)

-----------------------------------------------------------------------------
(* Program-trip export: app.py lines 232-247 *)

\* pd.to_datetime(date): midnight at the start of the day
to_datetime(day) == day * SECONDS_PER_DAY

export_shown(s) == s.uc_filter = "UC Program Only" \/ s.show_export

\* lines 244-247
in_export_range(t, export_start, export_end) ==
    /\ GE(t, to_datetime(export_start))
    /\ LE(t, to_datetime(export_end) + SECONDS_PER_DAY)

export_uc_trips(rows, s) ==
    LET Keep(r) == /\ r.is_uc = TRUE
                   /\ in_export_range(r.checkout_time, s.export_start, s.export_end)
    IN  SelectSeq(rows, Keep)

-----------------------------------------------------------------------------
(* Vehicle status cards: app.py lines 125-135 *)

\* Series.dropna().unique(): the non-null values in order of first appearance
RECURSIVE unique(_)
unique(cells) ==
    IF cells = <<>> THEN <<>>
    ELSE LET front == unique(SubSeq(cells, 1, Len(cells) - 1))
             last == cells[Len(cells)]
         IN  IF isna(last) \/ last[1] \in Range(front) THEN front
             ELSE Append(front, last[1])

vehicles_of(frame) == unique([i \in 1..Len(frame.rows) |-> frame.rows[i].vehicle])

\* lines 128-135 for one vehicle: the first row of the vehicle is its last checkout
vehicle_status(vehicle, frame, mdf) ==
    LET Keep(r) == r.vehicle = Some(vehicle)
        vehicle_df == SelectSeq(frame.rows, Keep)
        last_checkout == vehicle_df[1]
        current_mileage == last_checkout.mileage
    IN  [vehicle |-> vehicle,
         outcome |-> get_oil_change_status(vehicle, current_mileage, mdf)]

\* the loop of line 127 ends at the first call that raises
RECURSIVE status_loop(_, _, _)
status_loop(vehicles, frame, mdf) ==
    IF vehicles = <<>> THEN <<>>
    ELSE LET first == vehicle_status(Head(vehicles), frame, mdf)
         IN  IF first.outcome.exc # "none" THEN <<first>>
             ELSE <<first>> \o status_loop(Tail(vehicles), frame, mdf)

Raised(statuses) ==
    {statuses[i].outcome.exc : i \in 1..Len(statuses)} \ {"none"}

-----------------------------------------------------------------------------
(* st.cache_data(ttl=60): app.py lines 21, 43 and 117 *)

TTL == 60

NoCache == [data |-> Null, maint |-> Null]

Fresh(entry, now) == ~isna(entry) /\ now - entry[1].at < TTL

Entry(result, now) == Some([result |-> result, at |-> now])

-----------------------------------------------------------------------------
(* Texts and feeds of the model *)

TxtX == <<"x">>

TxtAl == <<"A","l">>

TxtBo == <<"B","o">>

TxtOilChange == <<"O","i","l"," ","C","h","a","n","g","e">>

TxtTires == <<"T","i","r","e","s">>

Vehicles == {"Van-1", "Van-2"}

\* a positional row of the 10-column checkout sheet
Raw10(id, c) ==
    <<c.t, c.v, c.fn, c.ln, c.m, Some("Depot"), Null, Null, id, c.f>>

\* a positional row of the older 9-column sheet: no program-flag cell
Raw9(id, c) ==
    <<c.t, c.v, c.fn, c.ln, c.m, Some("Depot"), Null, Null, id>>

Header(n) == [i \in 1..n |-> i]

CheckoutFrames(contents, n) ==
    {DataFrame(Header(Len(CHECKOUT_COLUMNS)), [i \in 1..Len(c) |-> Raw10(i, c[i])]) :
        c \in SeqsUpTo(contents, n)}

OldFrames(contents, n) ==
    {DataFrame(Header(Len(CHECKOUT_COLUMNS) - 1), [i \in 1..Len(c) |-> Raw9(i, c[i])]) :
        c \in SeqsUpTo(contents, n) \ {<<>>}}

FetchFailure == [ok |-> FALSE, frame |-> EmptyDataFrame]

Fetched(frames) == {[ok |-> TRUE, frame |-> f] : f \in frames}

MaintenanceFrames(rows, n) ==
    {DataFrame(Header(Len(MAINTENANCE_COLUMNS)), r) : r \in SeqsUpTo(rows, n)}

ShortFrames(rows) ==
    {DataFrame(Header(Len(MAINTENANCE_COLUMNS) - 1), <<SubSeq(r, 1, 3)>>) : r \in rows}

-----------------------------------------------------------------------------
(* The render cycle: app.py lines 103-303 *)

MaxFeedRows == 1

MaxMaintFeedRows == 1

MaxClock == 60

CycleContents ==
    [t : {Lit(0)}, v : {Some("Van-1"), Some("Van-2")}, fn : {Some(TxtAl)},
     ln : {Some(TxtBo)}, m : {Lit(14200), Blank}, f : {Some(TxtX)}]

CycleCheckoutFetches ==
    {FetchFailure} \cup Fetched(CheckoutFrames(CycleContents, MaxFeedRows))
                   \cup Fetched(OldFrames(CycleContents, 1))

CycleMaintenanceRows ==
    { <<"Van-1", Lit(1), Lit(10000), Some(TxtOilChange)>>,
      <<"Van-1", Lit(1), Junk, Some(TxtOilChange)>> }

CycleMaintenanceFetches ==
    {FetchFailure} \cup Fetched(MaintenanceFrames(CycleMaintenanceRows, MaxMaintFeedRows))
                   \cup Fetched(ShortFrames(CycleMaintenanceRows))

\* the widget values of a first visit (index=0 everywhere, checkbox unticked)
DefaultSel(now) ==
    [refresh |-> FALSE, vehicle_filter |-> Null, staff_filter |-> Null,
     date_range |-> "Last 7 days", uc_filter |-> "All Trips", show_export |-> FALSE,
     export_start |-> (now \div SECONDS_PER_DAY) - 365,
     export_end |-> now \div SECONDS_PER_DAY]

Waiting == {"idle", "stopped", "crashed", "load_raised"}

PostLoad == {"guard", "button", "status", "history", "idle", "stopped", "crashed"}

NoFeed == [data |-> FetchFailure, maint |-> FetchFailure]

Init ==
    /\ clock = 0
    /\ cache = NoCache
    /\ feed = NoFeed
    /\ pc = "run"
    /\ df = EmptyDataFrame
    /\ maintenance_df = EmptyDataFrame
    /\ errors = {}
    /\ widgets = {}
    /\ oil_status = <<>>
    /\ sel = DefaultSel(0)
    /\ filtered_df = <<>>
    /\ uc_trips = <<>>
    /\ args = Null

\* a rerun starts with an empty page
StartRun(clicked) ==
    /\ pc' = "run"
    /\ sel' = [sel EXCEPT !.refresh = clicked]
    /\ df' = EmptyDataFrame
    /\ maintenance_df' = EmptyDataFrame
    /\ errors' = {}
    /\ widgets' = {}
    /\ oil_status' = <<>>
    /\ filtered_df' = <<>>
    /\ uc_trips' = <<>>
    /\ UNCHANGED <<clock, cache, feed, args>>

\* any interaction or page reload reruns the script
Rerun ==
    /\ pc \in Waiting
    /\ StartRun(FALSE)

\* clicking the Refresh button: possible only when the last run rendered it
ClickRefresh ==
    /\ pc \in Waiting
    /\ "refresh" \in widgets
    /\ StartRun(TRUE)

Tick ==
    /\ pc \in Waiting
    /\ clock + TTL \div 2 <= MaxClock
    /\ clock' = clock + TTL \div 2
    /\ UNCHANGED <<cache, feed, pc, df, maintenance_df, errors, widgets,
                   oil_status, sel, filtered_df, uc_trips, args>>

\* lines 106-107: each loader answers from its cache entry while it is fresh
\* and otherwise runs its body on what the sheet delivers now; an exception
\* leaving a loader would end the run
LoadStep ==
    /\ pc = "run"
    /\ \E fetch \in IF Fresh(cache.data, clock) THEN {feed.data}
                    ELSE CycleCheckoutFetches,
          mfetch \in IF Fresh(cache.maint, clock) THEN {feed.maint}
                     ELSE CycleMaintenanceFetches :
          \E r \in IF Fresh(cache.data, clock) THEN {cache.data[1].result}
                   ELSE load_data(fetch) :
             LET m == IF Fresh(cache.maint, clock) THEN cache.maint[1].result
                      ELSE load_maintenance(mfetch)
                 raised == {r.exc, m.exc} \ {"none"}
             IN  /\ df' = r.value
                 /\ maintenance_df' = m.value
                 /\ errors' = Range(r.error) \cup Range(m.error) \cup raised
                 /\ feed' = [data |-> fetch, maint |-> mfetch]
                 /\ cache' = [data  |-> IF Fresh(cache.data, clock) THEN cache.data
                                        ELSE Entry(r, clock),
                              maint |-> IF Fresh(cache.maint, clock) THEN cache.maint
                                        ELSE Entry(m, clock)]
                 /\ pc' = IF raised # {} THEN "load_raised" ELSE "guard"
    /\ UNCHANGED <<clock, widgets, oil_status, sel, filtered_df, uc_trips, args>>

\* lines 109-111
GuardStep ==
    /\ pc = "guard"
    /\ IF empty(df)
       THEN /\ errors' = errors \cup {"No checkout data found"}
            /\ pc' = "stopped"
       ELSE /\ errors' = errors
            /\ pc' = "button"
    /\ UNCHANGED <<clock, cache, feed, df, maintenance_df, widgets, oil_status,
                   sel, filtered_df, uc_trips, args>>

\* lines 113-118: st.rerun() abandons this run and starts the script again
\* on an empty page
ButtonStep ==
    /\ pc = "button"
    /\ IF sel.refresh
       THEN /\ cache' = NoCache
            /\ sel' = [sel EXCEPT !.refresh = FALSE]
            /\ pc' = "run"
            /\ widgets' = {}
            /\ errors' = {}
            /\ df' = EmptyDataFrame
            /\ maintenance_df' = EmptyDataFrame
       ELSE /\ widgets' = widgets \cup {"refresh"}
            /\ pc' = "status"
            /\ UNCHANGED <<cache, sel, errors, df, maintenance_df>>
    /\ UNCHANGED <<clock, feed, oil_status, filtered_df, uc_trips, args>>

\* lines 125-161: an uncaught exception ends the run
StatusStep ==
    /\ pc = "status"
    /\ oil_status' = status_loop(vehicles_of(df), df, maintenance_df)
    /\ errors' = errors \cup Raised(oil_status')
    /\ pc' = IF Raised(oil_status') # {} THEN "crashed" ELSE "history"
    /\ UNCHANGED <<clock, cache, feed, df, maintenance_df, widgets, sel,
                   filtered_df, uc_trips, args>>

\* lines 163-303
HistoryStep ==
    /\ pc = "history"
    /\ widgets' = widgets \cup {"vehicle_filter", "staff_filter", "date_range",
                                "uc_filter", "show_export"}
                          \cup (IF export_shown(sel)
                                THEN {"export_start", "export_end", "download"}
                                ELSE {})
    /\ filtered_df' = apply_filters(df.rows, sel, clock)
    /\ uc_trips' = IF export_shown(sel) THEN export_uc_trips(df.rows, sel) ELSE <<>>
    /\ pc' = "idle"
    /\ UNCHANGED <<clock, cache, feed, df, maintenance_df, errors, oil_status,
                   sel, args>>

Next ==
    \/ Rerun
    \/ ClickRefresh
    \/ Tick
    \/ LoadStep
    \/ GuardStep
    \/ ButtonStep
    \/ StatusStep
    \/ HistoryStep

Spec == Init /\ [][Next]_vars

-----------------------------------------------------------------------------
(* Properties of the render cycle *)

Unknown == OilResult("unknown", "white", "No oil change on record", Null, Null)

BadFetch(fetch, names) == ~fetch.ok \/ Len(fetch.frame.columns) # Len(names)

\* C2: when the maintenance fetch failed, a render cycle that reaches the
\* status cards gives every vehicle the status 'unknown' ("No oil change on
\* record") and no call of get_oil_change_status raises.
C2_AbsentMaintenanceAllUnknown ==
    (pc \in {"history", "idle", "crashed"} /\ ~feed.maint.ok) =>
        /\ Len(oil_status) = Len(vehicles_of(df))
        /\ \A i \in 1..Len(oil_status) : oil_status[i].outcome = Return(Unknown)

\* C3: when the checkout sheet has the older 9 columns, load_data reports no
\* error and returns every row of the sheet, each with is_uc = FALSE.
C3_OldFormatLoads ==
    (pc \in PostLoad /\ feed.data.ok
        /\ Len(feed.data.frame.columns) = Len(CHECKOUT_COLUMNS) - 1) =>
        /\ "Error loading data" \notin errors
        /\ Len(df.rows) = Len(feed.data.frame.rows)
        /\ \A i \in 1..Len(df.rows) : df.rows[i].is_uc = FALSE

\* C7: no exception leaves a loader; a failed fetch or a sheet of the wrong
\* width gives the empty table and an st.error report; and a run whose
\* checkout table is empty ends at the 'no data' warning with no status card,
\* no filter result, no export and no widget computed.
C7_LoadersNeverRaise ==
    /\ pc # "load_raised"
    /\ pc \in PostLoad =>
        /\ BadFetch(feed.data, CHECKOUT_COLUMNS) =>
              df = EmptyDataFrame /\ "Error loading data" \in errors
        /\ BadFetch(feed.maint, MAINTENANCE_COLUMNS) =>
              /\ maintenance_df = EmptyDataFrame
              /\ "Error loading maintenance data" \in errors
    /\ (pc \in PostLoad \ {"guard"} /\ empty(df)) =>
        /\ pc = "stopped"
        /\ "No checkout data found" \in errors
        /\ oil_status = <<>>
        /\ filtered_df = <<>>
        /\ uc_trips = <<>>
        /\ widgets = {}

C7_Witness ==
    /\ pc = "stopped"
    /\ ~feed.data.ok
    /\ feed.maint.ok
    /\ Len(feed.maint.frame.columns) # Len(MAINTENANCE_COLUMNS)
    /\ errors = {"Error loading data", "Error loading maintenance data",
                 "No checkout data found"}

\* C8: a table in use is never older than the time-to-live, and every
\* finished script run, whatever the loaders returned, leaves the Refresh
\* button on the page, so that the user can clear the cache.
C8_RefreshAlwaysAvailable ==
    /\ pc \in {"guard", "button", "status", "history"} =>
          Fresh(cache.data, clock) /\ Fresh(cache.maint, clock)
    /\ pc \in Waiting => "refresh" \in widgets

-----------------------------------------------------------------------------
(* get_oil_change_status on its own: every table load_maintenance can return
   from a bounded sheet, every vehicle and a set of odometer readings around
   the thresholds *)

MaxMaintRows == 2

OilRawRows ==
    {<<v, d, m, st>> : v \in Vehicles, d \in {Lit(1), Lit(2)},
                       m \in {Lit(10000), Lit(10200), Junk},
                       st \in {Some(TxtOilChange), Some(TxtTires), Null}}

OilFetches ==
    {FetchFailure} \cup Fetched(MaintenanceFrames(OilRawRows, MaxMaintRows))

OilMileages ==
    {Null, Some(9000), Some(13999), Some(14000), Some(14999), Some(15000),
     Some(15200)}

Quiet ==
    /\ clock = 0
    /\ cache = NoCache
    /\ errors = {}
    /\ widgets = {}

InitOil ==
    /\ Quiet
    /\ feed = NoFeed
    /\ pc = "call"
    /\ df = EmptyDataFrame
    /\ maintenance_df \in {load_maintenance(f).value : f \in OilFetches}
    /\ args \in [vehicle : {"Van-1"}, current_mileage : OilMileages]
    /\ oil_status = <<>>
    /\ sel = DefaultSel(0)
    /\ filtered_df = <<>>
    /\ uc_trips = <<>>

CallOilStatus ==
    /\ pc = "call"
    /\ oil_status' = <<[vehicle |-> args.vehicle,
                        outcome |-> get_oil_change_status(
                            args.vehicle, args.current_mileage, maintenance_df)]>>
    /\ pc' = "returned"
    /\ UNCHANGED <<clock, cache, feed, df, maintenance_df, errors, widgets, sel,
                   filtered_df, uc_trips, args>>

NextOil == CallOilStatus

SpecOil == InitOil /\ [][NextOil]_vars

\* the rows of the table that are oil changes of the vehicle
OilRowsOf(vehicle, frame) ==
    {i \in 1..Len(frame.rows) :
        /\ frame.rows[i].vehicle = vehicle
        /\ ~isna(frame.rows[i].service_type)
        /\ \E j \in 1..Len(frame.rows[i].service_type[1]) - 2 :
              str_lower(SubSeq(frame.rows[i].service_type[1], j, j + 2)) = OilText}

SetMax(S) == CHOOSE x \in S : \A y \in S : y <= x

Outcome == oil_status[1].outcome

\* C1: with a matching oil-change row and a current mileage the call returns
\* miles_since = current mileage - last oil-change mileage and the status
\* 'overdue' iff miles_since >= 5000, 'warning' iff 4000 <= miles_since < 5000,
\* 'good' iff miles_since < 4000; with no matching row or no current mileage
\* it returns 'unknown' with miles_since = None.
C1_Classification ==
    pc = "returned" =>
        IF OilRowsOf(args.vehicle, maintenance_df) # {} /\ ~isna(args.current_mileage)
        THEN /\ Outcome.exc = "none"
             /\ LET r == Outcome.ret[1]
                IN  /\ ~isna(r.miles_since)
                    /\ r.miles_since = Minus(args.current_mileage, r.last_mileage)
                    /\ r.status = "overdue" <=> r.miles_since[1] >= 5000
                    /\ r.status = "warning" <=>
                          (4000 <= r.miles_since[1] /\ r.miles_since[1] < 5000)
                    /\ r.status = "good" <=> r.miles_since[1] < 4000
        ELSE /\ Outcome.exc = "none"
             /\ Outcome.ret[1].status = "unknown"
             /\ Outcome.ret[1].miles_since = Null

\* C9: when the vehicle has oil-change rows with a mileage, last_mileage is
\* the largest of these mileages, whatever the dates and the order of the
\* rows, and miles_since is current mileage - last_mileage, not clamped: a
\* negative value is returned as it is and classified 'good'.
C9_MaxMileageRow ==
    pc = "returned" =>
        LET rows == maintenance_df.rows
            M == {rows[i].mileage[1] : i \in
                     {j \in OilRowsOf(args.vehicle, maintenance_df) :
                         ~isna(rows[j].mileage)}}
        IN  (M # {} /\ ~isna(args.current_mileage)) =>
                /\ Outcome.exc = "none"
                /\ Outcome.ret[1].last_mileage = Some(SetMax(M))
                /\ Outcome.ret[1].miles_since =
                      Some(args.current_mileage[1] - SetMax(M))
                /\ args.current_mileage[1] < SetMax(M) =>
                      Outcome.ret[1].status = "good"

\* two oil changes of the vehicle: the one with the larger mileage has the
\* older date and comes second in the table; the current mileage is below both
C9_Witness ==
    /\ pc = "returned"
    /\ Len(maintenance_df.rows) = 2
    /\ OilRowsOf(args.vehicle, maintenance_df) = {1, 2}
    /\ maintenance_df.rows[1].mileage = Some(10000)
    /\ maintenance_df.rows[1].date = Some(2)
    /\ maintenance_df.rows[2].mileage = Some(10200)
    /\ maintenance_df.rows[2].date = Some(1)
    /\ args.current_mileage = Some(9000)
    /\ Outcome.exc = "none"
    /\ Outcome.ret[1].last_mileage = Some(10200)
    /\ Outcome.ret[1].miles_since = Some(-1200)
    /\ Outcome.ret[1].status = "good"

\* C10: on a table loaded from the sheet, whose service types are text, and
\* with a current mileage, the call returns one of the four statuses and
\* does not raise, also when the mileage of every matching row is null.
C10_CoercionNeverFatal ==
    (/\ pc = "returned"
     /\ ~isna(args.current_mileage)
     /\ maintenance_df.columns = MAINTENANCE_COLUMNS
     /\ ~StrAccessorFails(maintenance_df.rows, "service_type")) =>
        /\ Outcome.exc = "none"
        /\ Outcome.ret[1].status \in {"unknown", "good", "warning", "overdue"}

-----------------------------------------------------------------------------
(* load_data on its own: sheets whose program-flag cells are blank, padded,
   of mixed case, or contain an allow-list entry without being one *)

MaxLoadRows == 2

MaxFlagLen == 2

FlagChars == {" ", "X"}

FlagTexts ==
    { <<"Y","e","s"," ">>, <<"y","e","s","s">>, <<"n","o">>,
      <<"T","R","U","E">>,
      <<"u","n","c","h","e","c","k","e","d">>,
      <<"U","C"," ","P","r","o","g","r","a","m"," ","T","r","i","p">>,
      <<"u","c"," ","p","r","o","g","r","a","m"," ","t","r","i","p","?">>,
      <<"u","c"," ","p","r","o","g","r","a","m">>,
      <<"\t","1","\n">>, <<"1",".","0">> }

FlagCells ==
    {Null} \cup {Some(t) : t \in FlagTexts \cup SeqsUpTo(FlagChars, MaxFlagLen)}

LoadContents ==
    [t : {Lit(0)}, v : {Some("Van-1")}, fn : {Some(TxtAl)}, ln : {Some(TxtBo)},
     m : {Lit(14200)}, f : FlagCells]
    \cup
    [t : {Lit(1), Junk}, v : {Some("Van-2")}, fn : {Null}, ln : {Some(TxtBo)},
     m : {Junk}, f : {Null, Some(TxtX)}]

LoadFetches ==
    {FetchFailure} \cup Fetched(CheckoutFrames(LoadContents, MaxLoadRows))
                   \cup Fetched(OldFrames(LoadContents, 1))

InitLoad ==
    /\ Quiet
    /\ feed \in [data : LoadFetches, maint : {FetchFailure}]
    /\ pc = "call"
    /\ df = EmptyDataFrame
    /\ maintenance_df = EmptyDataFrame
    /\ args = Null
    /\ oil_status = <<>>
    /\ sel = DefaultSel(0)
    /\ filtered_df = <<>>
    /\ uc_trips = <<>>

CallLoadData ==
    /\ pc = "call"
    /\ \E r \in load_data(feed.data) :
          /\ df' = r.value
          /\ errors' = Range(r.error) \cup ({r.exc} \ {"none"})
    /\ pc' = "returned"
    /\ UNCHANGED <<clock, cache, feed, maintenance_df, widgets, oil_status, sel,
                   filtered_df, uc_trips, args>>

NextLoad == CallLoadData

SpecLoad == InitLoad /\ [][NextLoad]_vars

\* the program-flag text of a sheet cell: lowercased, then trimmed
NormalizedFlag(cell) == str_strip(str_lower(IF isna(cell) THEN <<>> ELSE cell[1]))

\* the sheet row a loaded row was made from
SheetRow(row) ==
    CHOOSE raw \in Range(feed.data.frame.rows) : raw[9] = row.submission_id

-----------------------------------------------------------------------------
(* The checkout-history filter on its own: tables load_data returns, every
   selection the four selectboxes offer, rows at and around both cutoffs *)

MaxFilterRows == 2

FilterNow == 40 * SECONDS_PER_DAY

FilterTimes ==
    { Junk,
      Lit(FilterNow - WEEK_DAYS * SECONDS_PER_DAY),
      Lit(FilterNow - WEEK_DAYS * SECONDS_PER_DAY - 1),
      Lit(FilterNow - MONTH_DAYS * SECONDS_PER_DAY - 1) }

FilterContents ==
    [t : FilterTimes, v : {Some("Van-1")}, fn : {Some(TxtAl)}, ln : {Null},
     m : {Lit(14200)}, f : {Null, Some(TxtX)}]
    \cup
    [t : FilterTimes, v : {Some("Van-1")}, fn : {Some(TxtBo)}, ln : {Null},
     m : {Lit(14200)}, f : {Some(TxtX)}]
    \cup
    [t : FilterTimes, v : {Some("Van-2")}, fn : {Some(TxtAl)}, ln : {Null},
     m : {Lit(14200)}, f : {Some(TxtX)}]

FilterFetches == Fetched(CheckoutFrames(FilterContents, MaxFilterRows))

\* the options of the selectboxes of lines 168-195
Selections(frame) ==
    {[DefaultSel(FilterNow) EXCEPT !.vehicle_filter = v, !.staff_filter = st,
                                   !.date_range = d, !.uc_filter = u] :
        v \in {Null} \cup {Some(x) : x \in Range(vehicles_of(frame))},
        st \in {Null} \cup {Some(r.staff_name) : r \in Range(frame.rows)},
        d \in {"Last 7 days", "Last 30 days", "All time"},
        u \in {"All Trips", "UC Program Only", "Non-UC Only"}}

InitFilter ==
    /\ Quiet
    /\ \E f \in FilterFetches :
          /\ feed = [data |-> f, maint |-> FetchFailure]
          /\ df \in {r.value : r \in load_data(f)}
    /\ pc = "call"
    /\ maintenance_df = EmptyDataFrame
    /\ args = Some(FilterNow)
    /\ oil_status = <<>>
    /\ sel = DefaultSel(FilterNow)
    /\ filtered_df = <<>>
    /\ uc_trips = <<>>

\* the user sets the selectboxes; lines 197-216 run with datetime.now() = args
ApplyFilters ==
    /\ pc = "call"
    /\ \E s \in Selections(df) :
          /\ sel' = s
          /\ filtered_df' = apply_filters(df.rows, s, args[1])
    /\ pc' = "returned"
    /\ UNCHANGED <<clock, cache, feed, df, maintenance_df, errors, widgets,
                   oil_status, uc_trips, args>>

NextFilter == ApplyFilters

SpecFilter == InitFilter /\ [][NextFilter]_vars

\* the conjunction of the selected predicates
Selected(r, s, now) ==
    /\ ~isna(s.vehicle_filter) => r.vehicle = s.vehicle_filter
    /\ ~isna(s.staff_filter) => r.staff_name = s.staff_filter[1]
    /\ s.date_range = "Last 7 days" =>
          ~isna(r.checkout_time) /\ r.checkout_time[1] >= now - 7 * SECONDS_PER_DAY
    /\ s.date_range = "Last 30 days" =>
          ~isna(r.checkout_time) /\ r.checkout_time[1] >= now - 30 * SECONDS_PER_DAY
    /\ s.uc_filter = "UC Program Only" => r.is_uc
    /\ s.uc_filter = "Non-UC Only" => ~r.is_uc

Orders ==
    {[i \in 1..Len(CODE_ORDER) |-> CODE_ORDER[f[i]]] :
        f \in IndexPermutations(Len(CODE_ORDER))}

\* C5: filtered_df holds exactly the rows of df that satisfy every selected
\* predicate, in the order they have in df, and applying the four filters in
\* any other order gives the same rows.
C5_FilterConjunction ==
    pc = "returned" =>
        LET Keep(r) == Selected(r, sel, args[1])
        IN  /\ filtered_df = SelectSeq(df.rows, Keep)
            /\ \A o \in Orders : apply_in_order(o, df.rows, sel, args[1]) = filtered_df

\* all four predicates selected; they keep the second row, which lies on the
\* 7-day cutoff, and drop the first
C5_Witness ==
    /\ pc = "returned"
    /\ ~isna(sel.vehicle_filter)
    /\ ~isna(sel.staff_filter)
    /\ sel.date_range = "Last 7 days"
    /\ sel.uc_filter = "UC Program Only"
    /\ Len(df.rows) = 2
    /\ filtered_df = <<df.rows[2]>>
    /\ df.rows[2].checkout_time = Some(args[1] - 7 * SECONDS_PER_DAY)

-----------------------------------------------------------------------------
(* The program-trip export on its own; day 0 is 2024-01-01, so 2024-01-31 is
   day 30 and 2024-02-01 is day 31 *)

MaxExportRows == 2

\* 23:59 of a day
LAST_MINUTE == SECONDS_PER_DAY - 60

ExportTimes ==
    { Junk, Lit(-60), Lit(0),
      Lit(30 * SECONDS_PER_DAY + LAST_MINUTE),
      Lit(31 * SECONDS_PER_DAY),
      Lit(31 * SECONDS_PER_DAY + 60) }

ExportContents ==
    [t : ExportTimes, v : {Some("Van-1")}, fn : {Some(TxtAl)}, ln : {Some(TxtBo)},
     m : {Lit(14200)}, f : {Null, Some(TxtX)}]

ExportFetches == Fetched(CheckoutFrames(ExportContents, MaxExportRows))

ExportDays == {0, 30, 31}

InitExport ==
    /\ Quiet
    /\ \E f \in ExportFetches :
          /\ feed = [data |-> f, maint |-> FetchFailure]
          /\ df \in {r.value : r \in load_data(f)}
    /\ pc = "call"
    /\ maintenance_df = EmptyDataFrame
    /\ args = Null
    /\ oil_status = <<>>
    /\ sel = DefaultSel(0)
    /\ filtered_df = <<>>
    /\ uc_trips = <<>>

\* the user ticks "Show UC Program Export" and picks the two dates
ExportStep ==
    /\ pc = "call"
    /\ \E a \in ExportDays, b \in ExportDays :
          /\ sel' = [sel EXCEPT !.show_export = TRUE, !.export_start = a,
                                !.export_end = b]
          /\ uc_trips' = export_uc_trips(df.rows, sel')
    /\ pc' = "returned"
    /\ UNCHANGED <<clock, cache, feed, df, maintenance_df, errors, widgets,
                   oil_status, filtered_df, args>>

NextExport == ExportStep

SpecExport == InitExport /\ [][NextExport]_vars

\* C4: the export holds exactly the program-trip rows whose checkout time is
\* at or after 00:00 of the start date and before the end of the end date: a
\* row at 23:59 of the end date is exported, a row at 00:00 of the next day
\* is not.
C4_ExportRangeInclusive ==
    pc = "returned" =>
        LET Keep(r) ==
                /\ r.is_uc
                /\ ~isna(r.checkout_time)
                /\ r.checkout_time[1] >= sel.export_start * SECONDS_PER_DAY
                /\ r.checkout_time[1] < (sel.export_end + 1) * SECONDS_PER_DAY
        IN  uc_trips = SelectSeq(df.rows, Keep)

=============================================================================
